---- MODULE Spec2Model ----
(***************************************************************************)
(* A model of helmdeps.py: the recursive resolver parse_chart (manifest    *)
(* reading, directory and archive traversal, safe extraction into a        *)
(* temporary directory, merge of the sub-chart's dependencies), the two    *)
(* graph builders build_graph and build_combined_graph, and main's         *)
(* dispatch.  Strings are sequences of one-character strings, so that      *)
(* os.path and f-string formatting are computed character by character.    *)
(***************************************************************************)
EXTENDS Integers, Sequences, FiniteSets, TLC

(***************************************************************************)
(* Strings and os.path                                                     *)
(***************************************************************************)
Slash == "/"

\* the characters of "Chart.yaml" (line 18) and of "charts" (line 42)
ChartYaml == <<"C", "h", "a", "r", "t", ".", "y", "a", "m", "l">>

ChartsDir == <<"c", "h", "a", "r", "t", "s">>

\* the extension compared at line 54
TgzExt == <<".", "t", "g", "z">>

\* the process's working directory, which os.path.abspath prepends to a
\* relative path
Cwd == <<"/", "w">>

IsAbs(p) == Len(p) > 0 /\ p[1] = Slash

\* os.path.join(a, b)
PathJoin(a, b) ==
  IF IsAbs(b) THEN b
  ELSE IF a = <<>> \/ a[Len(a)] = Slash THEN a \o b
  ELSE a \o <<Slash>> \o b

\* p.split("/")
RECURSIVE SplitFrom(_, _, _)
SplitFrom(p, i, cur) ==
  IF i > Len(p) THEN <<cur>>
  ELSE IF p[i] = Slash THEN <<cur>> \o SplitFrom(p, i + 1, <<>>)
  ELSE SplitFrom(p, i + 1, Append(cur, p[i]))

Split(p) == SplitFrom(p, 1, <<>>)

\* os.path.normpath's loop over the components of an absolute path: empty
\* and "." components are dropped, ".." removes the last kept component
\* (and is dropped at the root)
RECURSIVE NormComps(_, _, _)
NormComps(comps, i, acc) ==
  IF i > Len(comps) THEN acc
  ELSE IF comps[i] = <<>> \/ comps[i] = <<".">> THEN NormComps(comps, i + 1, acc)
  ELSE IF comps[i] = <<".", ".">>
    THEN NormComps(comps, i + 1,
                   IF Len(acc) > 0 THEN SubSeq(acc, 1, Len(acc) - 1) ELSE acc)
  ELSE NormComps(comps, i + 1, Append(acc, comps[i]))

RECURSIVE JoinComps(_, _)
JoinComps(comps, i) ==
  IF i > Len(comps) THEN <<>>
  ELSE <<Slash>> \o comps[i] \o JoinComps(comps, i + 1)

\* the components of os.path.abspath(p)
AbsComps(p) == NormComps(Split(IF IsAbs(p) THEN p ELSE PathJoin(Cwd, p)), 1, <<>>)

\* os.path.abspath(p)
abspath(p) ==
  LET c == AbsComps(p) IN IF c = <<>> THEN <<Slash>> ELSE JoinComps(c, 1)

\* os.path.commonprefix([a, b]): the longest common prefix, by characters
RECURSIVE CommonLen(_, _, _)
CommonLen(a, b, i) ==
  IF i > Len(a) \/ i > Len(b) \/ a[i] # b[i] THEN i - 1
  ELSE CommonLen(a, b, i + 1)

commonprefix(a, b) == SubSeq(a, 1, CommonLen(a, b, 1))

\* os.path.splitext(name)[1]: from the last dot, unless the name's dots are
\* all leading
RECURSIVE LastDot(_, _)
LastDot(name, i) ==
  IF i = 0 THEN 0 ELSE IF name[i] = "." THEN i ELSE LastDot(name, i - 1)

AllDots(name, n) == \A j \in 1..n : name[j] = "."

splitext_ext(name) ==
  LET d == LastDot(name, Len(name)) IN
  IF d = 0 \/ AllDots(name, d) THEN <<>> ELSE SubSeq(name, d, Len(name))

(***************************************************************************)
(* The inspected storage: components, manifests, charts/ entries           *)
(***************************************************************************)
\* how many further entries a charts/ listing of the root holds beside the
\* one entry that may itself hold a nested charts/ folder
MaxSiblings == 1

NameA == <<"a">>

NameB == <<"b">>

NameC == <<"c">>

Ver1 == <<"1">>

Ver2 == <<"2">>

Repo == <<"h">>

CondE == <<"e">>

\* entries of a manifest's dependencies list; condition is an optional key
RefA == [name |-> NameA, version |-> Ver1, repository |-> Repo, condition |-> CondE]

RefB == [name |-> NameB, version |-> Ver2, repository |-> Repo]

\* the same name declared a second time, with another version
RefA2 == [name |-> NameA, version |-> Ver2, repository |-> Repo]

\* two declarations whose name@version strings coincide
RefW1 == [name |-> NameA, version |-> <<"1", "@", "1">>, repository |-> Repo]

RefW2 == [name |-> <<"a", "@", "1">>, version |-> Ver1, repository |-> Repo]

\* a declaration whose name holds the separator of the clustered identifiers
RefW3 == [name |-> <<"a", "@", "1", "_", "_", "b">>, version |-> Ver2, repository |-> Repo]

Manifest(n, v, deps) ==
  [state |-> "ok", doc |-> [name |-> n, version |-> v, dependencies |-> deps]]

\* a manifest without the optional dependencies key
ManifestPlain(n, v) == [state |-> "ok", doc |-> [name |-> n, version |-> v]]

\* a manifest that parses but lacks the required version key
ManifestNoVersion(n) == [state |-> "ok", doc |-> [name |-> n]]

ManifestMissing == [state |-> "missing"]

ManifestMalformed == [state |-> "malformed"]

Component(m, exists, entries) ==
  [manifest |-> m, charts_exists |-> exists, entries |-> entries]

NoComponent == Component(ManifestMissing, FALSE, <<>>)

DirEntry(n, comp) ==
  [file_name |-> n, kind |-> "dir", comp |-> comp, has_top |-> TRUE,
   top_name |-> n, extra |-> <<>>]

\* an archive: its single top-level directory (when it has one) and the
\* names of further members
TgzEntry(stem, has_top, comp, extra) ==
  [file_name |-> stem \o TgzExt, kind |-> "tgz", comp |-> comp,
   has_top |-> has_top, top_name |-> stem, extra |-> extra]

FileEntry(n) ==
  [file_name |-> n, kind |-> "file", comp |-> NoComponent, has_top |-> FALSE,
   top_name |-> <<>>, extra |-> <<>>]

\* member names that leave the extraction directory: to a path that shares
\* no name with it, and to a sibling of the scratch directory /t/s whose
\* name begins with "s"
MemberOut == <<".", ".", "/", "x">>

MemberSibling == <<".", ".", "/", "s", "x", "/", "f">>

StemP == <<"p">>

StemQ == <<"q">>

LeafComponents ==
  { Component(ManifestPlain(NameA, Ver1), FALSE, <<>>),
    Component(Manifest(NameB, Ver2, <<>>), FALSE, <<>>),
    Component(ManifestMissing, FALSE, <<>>),
    Component(ManifestMalformed, FALSE, <<>>),
    Component(ManifestNoVersion(NameA), FALSE, <<>>),
    Component(Manifest(NameA, Ver1, <<RefB>>), FALSE, <<>>) }

LeafA == Component(ManifestPlain(NameA, Ver1), FALSE, <<>>)

LeafB == Component(Manifest(NameB, Ver2, <<>>), FALSE, <<>>)

LeafMissing == Component(ManifestMissing, FALSE, <<>>)

\* the entries of a nested charts/ folder
InnerEntries ==
  { DirEntry(NameA, c) : c \in LeafComponents }
    \cup { DirEntry(NameB, c) : c \in {LeafB, LeafMissing} }
    \cup { DirEntry(NameC, LeafMissing), FileEntry(<<"n">>) }
    \cup { TgzEntry(StemP, TRUE, c, <<>>) : c \in LeafComponents }
    \cup { TgzEntry(StemP, FALSE, NoComponent, <<>>) }
    \cup { TgzEntry(StemP, TRUE, LeafA, <<m>>) : m \in {MemberOut, MemberSibling} }

MidComponents ==
  { Component(Manifest(n, Ver1, deps), TRUE, <<e>>) :
      n \in {NameA, NameB}, deps \in {<<RefA>>, <<RefA, RefB>>}, e \in InnerEntries }
    \cup { Component(Manifest(NameA, Ver1, <<RefA, RefB>>), TRUE, <<>>) }

\* the entry of the root's charts/ folder that may hold a nested folder
MainEntries ==
  { DirEntry(NameA, c) : c \in MidComponents \cup LeafComponents }
    \cup { DirEntry(NameB, c) : c \in {LeafB, LeafMissing} }
    \cup { DirEntry(NameC, LeafMissing), FileEntry(<<"n">>) }
    \cup { TgzEntry(StemP, TRUE, c, <<>>) : c \in MidComponents \cup LeafComponents }
    \cup { TgzEntry(StemP, FALSE, NoComponent, <<>>) }
    \cup { TgzEntry(StemP, TRUE, LeafA, <<m>>) : m \in {MemberOut, MemberSibling} }

SiblingEntries ==
  { DirEntry(NameB, LeafB), TgzEntry(StemQ, TRUE, LeafB, <<>>),
    TgzEntry(StemQ, TRUE, LeafMissing, <<>>), FileEntry(<<"n">>) }

RECURSIVE SeqsUpTo(_, _)
SeqsUpTo(S, n) ==
  IF n = 0 THEN { <<>> }
  ELSE LET shorter == SeqsUpTo(S, n - 1) IN
       shorter \cup { Append(s, e) : s \in shorter, e \in S }

\* os.listdir's order is arbitrary: the main entry stands anywhere among
\* its siblings
\* a folder holds no two entries of one name
DistinctNames(l) ==
  \A i, j \in 1..Len(l) : l[i].file_name = l[j].file_name => i = j

Listings ==
  { l \in { pre \o <<m>> \o post :
              m \in MainEntries,
              pre \in SeqsUpTo(SiblingEntries, MaxSiblings),
              post \in SeqsUpTo(SiblingEntries, MaxSiblings) } :
      Len(l) <= MaxSiblings + 1 /\ DistinctNames(l) }

NameR == <<"r">>

RootComponents ==
  { Component(Manifest(NameR, Ver1, deps), TRUE, l) :
      deps \in {<<RefA>>, <<RefA, RefB>>}, l \in Listings }
    \cup { Component(Manifest(NameR, Ver1, deps), FALSE, <<>>) :
             deps \in {<<>>, <<RefA>>, <<RefA, RefB>>, <<RefA, RefA2>>, <<RefW1, RefW2>>} }
    \cup { Component(Manifest(NameR, Ver1, <<RefA, RefW3>>), TRUE,
                     <<DirEntry(NameA, Component(Manifest(NameA, Ver1, <<RefB>>), FALSE, <<>>))>>) }
    \cup { Component(Manifest(NameR, Ver1, <<RefA>>), TRUE, <<FileEntry(<<"n">> \o TgzExt)>>) }
    \cup { Component(ManifestPlain(NameR, Ver1), TRUE, <<DirEntry(NameA, LeafMissing)>>),
           Component(ManifestMissing, FALSE, <<>>),
           Component(ManifestMalformed, TRUE, <<>>) }

\* the component a path of listing indices leads to
RECURSIVE CompAt(_, _)
CompAt(comp, path) ==
  IF path = <<>> THEN comp
  ELSE CompAt(comp.entries[path[1]].comp, SubSeq(path, 2, Len(path)))

\* the charts/ entry a non-empty path of listing indices leads to
EntryAt(comp, path) ==
  CompAt(comp, SubSeq(path, 1, Len(path) - 1)).entries[path[Len(path)]]

(***************************************************************************)
(* parse_chart: the pieces of its body                                     *)
(***************************************************************************)
\* DependencyEntry without the condition of the declaration
DependencyEntry_NoCondition(dependency) ==
  [name |-> dependency.name,
   version |-> dependency.version,
   repository |-> dependency.repository,
   condition |-> <<>>]

\* the dict value built for one declared dependency (lines 32-37)
DependencyEntry(dependency) ==
  [name |-> dependency.name,
   version |-> dependency.version,
   repository |-> dependency.repository,
   condition |-> IF "condition" \in DOMAIN dependency THEN dependency.condition ELSE <<>>]

\* a dict keyed by name, kept in insertion order: d[key] = value
RECURSIVE KeyIndex(_, _, _)
KeyIndex(d, key, i) ==
  IF i > Len(d) THEN 0 ELSE IF d[i].name = key THEN i ELSE KeyIndex(d, key, i + 1)

HasKey(d, key) == KeyIndex(d, key, 1) # 0

DictSet(d, value) ==
  LET i == KeyIndex(d, value.name, 1) IN
  IF i = 0 THEN Append(d, value) ELSE [d EXCEPT ![i] = value]

\* the dict comprehension of lines 31-39
RECURSIVE DependencyDict(_, _, _)
DependencyDict(deps, i, acc) ==
  IF i > Len(deps) THEN acc
  ELSE DependencyDict(deps, i + 1, DictSet(acc, DependencyEntry(deps[i])))

\* parsed_chart.get("dependencies", [])
DeclaredDependencies(doc) ==
  IF "dependencies" \in DOMAIN doc THEN doc.dependencies ELSE <<>>

\* whether lines 29-30 find their keys
HasRequiredKeys(doc) == "name" \in DOMAIN doc /\ "version" \in DOMAIN doc

\* chart_metadata of lines 28-40
ChartMetadata(doc) ==
  [name |-> doc.name,
   version |-> doc.version,
   dependencies |-> DependencyDict(DeclaredDependencies(doc), 1, <<>>)]

\* what lines 18-26 raise for a manifest, "" when they raise nothing
ManifestError(manifest) ==
  IF manifest.state = "missing" THEN "MissingManifest"
  ELSE IF manifest.state = "malformed" THEN "MalformedManifest"
  ELSE IF ~HasRequiredKeys(manifest.doc) THEN "KeyError"
  ELSE ""

\* line 52: a directory named after a declared dependency
IsDependencyDir(entry, chart_metadata) ==
  entry.kind = "dir" /\ HasKey(chart_metadata.dependencies, entry.file_name)

\* line 54
IsArchiveName(entry) == splitext_ext(entry.file_name) = TgzExt

\* metadata.get("dependencies", {})
GetDependencies(metadata) ==
  IF "dependencies" \in DOMAIN metadata THEN metadata.dependencies ELSE <<>>

\* line 82: the sub-chart's dependencies stored under the sub-chart's name
SetDependencies(entry, sub_dependencies) ==
  [name |-> entry.name, version |-> entry.version,
   repository |-> entry.repository, condition |-> entry.condition,
   dependencies |-> sub_dependencies]

MergeKeyFound(chart_metadata, sub_chart_metadata) ==
  HasKey(chart_metadata.dependencies, sub_chart_metadata.name)

\* Merge that drops the sub-chart's dependencies
Merge_Dropped(chart_metadata, sub_chart_metadata) == chart_metadata

Merge(chart_metadata, sub_chart_metadata) ==
  LET i == KeyIndex(chart_metadata.dependencies, sub_chart_metadata.name, 1) IN
  [chart_metadata EXCEPT
     !.dependencies[i] = SetDependencies(@, sub_chart_metadata.dependencies)]

(***************************************************************************)
(* Archives: member names, the containment test, extraction                *)
(***************************************************************************)
\* the temporary directories tempfile may hand out
TmpRoot == <<"/", "t">>

ScratchNames == { <<"s">>, <<"u">> }

ScratchPath(n) == PathJoin(TmpRoot, n)

\* the member names of a component stored under the directory `prefix`
RECURSIVE ComponentMembers(_, _)
ComponentMembers(comp, prefix) ==
  LET entryMembers(e) ==
        IF e.kind = "dir" THEN ComponentMembers(e.comp, PathJoin(PathJoin(prefix, ChartsDir), e.file_name))
        ELSE << PathJoin(PathJoin(prefix, ChartsDir), e.file_name) >>
      listed[i \in 0..Len(comp.entries)] ==
        IF i = 0 THEN <<>> ELSE listed[i - 1] \o entryMembers(comp.entries[i])
  IN <<prefix>>
       \o (IF comp.manifest.state = "missing" THEN <<>> ELSE << PathJoin(prefix, ChartYaml) >>)
       \o (IF comp.charts_exists THEN << PathJoin(prefix, ChartsDir) >> ELSE <<>>)
       \o listed[Len(comp.entries)]

\* tar.getmembers(): the names of the archive's members
GetMembers(entry) ==
  (IF entry.has_top THEN ComponentMembers(entry.comp, entry.top_name) ELSE <<>>)
    \o entry.extra

\* is_within_directory with the comparison turned round
is_within_directory_Swapped(directory, target) ==
  LET abs_directory == abspath(directory)
      abs_target == abspath(target)
      prefix == commonprefix(abs_directory, abs_target)
  IN prefix = abs_target

\* lines 57-64
is_within_directory(directory, target) ==
  LET abs_directory == abspath(directory)
      abs_target == abspath(target)
      prefix == commonprefix(abs_directory, abs_target)
  IN prefix = abs_directory

\* the loop of lines 68-71: whether some member fails the test
TraversalDetected(members, path) ==
  \E i \in 1..Len(members) : ~is_within_directory(path, PathJoin(path, members[i]))

\* tar.extractall(path): every member is written at its name joined to path
ExtractAll(members, path) ==
  { abspath(PathJoin(path, members[i])) : i \in 1..Len(members) }

\* whether the path p lies in the directory d, by path components
Under(p, d) ==
  LET pc == AbsComps(p)
      dc == AbsComps(d)
  IN Len(pc) >= Len(dc) /\ SubSeq(pc, 1, Len(dc)) = dc

\* os.listdir(tmp_dir): the names directly inside tmp_dir
ListDir(files, tmp_dir) ==
  LET n == Len(AbsComps(tmp_dir)) IN
  { AbsComps(f)[n + 1] : f \in { g \in files : Under(g, tmp_dir) /\ Len(AbsComps(g)) > n } }

\* TemporaryDirectory's cleanup: the directory and everything in it
RemoveTree(files, tmp_dir) == { f \in files : ~Under(f, tmp_dir) }

(***************************************************************************)
(* parse_chart as a function of the component it is called on              *)
(***************************************************************************)
Returned(value) == [ok |-> TRUE, val |-> value]

Raised(kind) == [ok |-> FALSE, err |-> kind]

\* parse_chart(chart_folder) (lines 17-88), every temporary directory
\* being created at tmp_dir: the value returned or the exception raised
RECURSIVE parse_chart(_, _)
parse_chart(comp, tmp_dir) ==
  IF ManifestError(comp.manifest) # "" THEN Raised(ManifestError(comp.manifest))
  ELSE
    LET chart_metadata == ChartMetadata(comp.manifest.doc)
        merged(acc, sub) ==
          IF ~sub.ok THEN sub
          ELSE IF ~MergeKeyFound(acc.val, sub.val) THEN Raised("KeyError")
          ELSE Returned(Merge(acc.val, sub.val))
        archive(acc, e) ==
          LET members == GetMembers(e) IN
          IF e.kind # "tgz" THEN Raised("ReadError")
          ELSE IF TraversalDetected(members, tmp_dir) THEN Raised("PathTraversal")
          ELSE IF ListDir(ExtractAll(members, tmp_dir), tmp_dir) = {} THEN Raised("IndexError")
          ELSE merged(acc, parse_chart(e.comp, tmp_dir))
        after[i \in 0..Len(comp.entries)] ==
          IF i = 0 THEN Returned(chart_metadata)
          ELSE LET acc == after[i - 1]
                   e == comp.entries[i]
               IN IF ~acc.ok THEN acc
                  ELSE IF IsDependencyDir(e, acc.val) THEN merged(acc, parse_chart(e.comp, tmp_dir))
                  ELSE IF IsArchiveName(e) THEN archive(acc, e)
                  ELSE acc
    IN IF chart_metadata.dependencies = <<>> THEN Returned(chart_metadata)
       ELSE IF ~comp.charts_exists THEN Returned(chart_metadata)
       ELSE after[Len(comp.entries)]

(***************************************************************************)
(* The graph builders                                                      *)
(***************************************************************************)
\* f"{metadata['name']}@{metadata['version']}"
NodeLabel(metadata) == metadata.name \o <<"@">> \o metadata.version

\* dependency_metadata.get("condition", "")
GetCondition(metadata) ==
  IF "condition" \in DOMAIN metadata THEN metadata.condition ELSE <<>>

EmptyGraph == [nodes |-> <<>>, edges |-> <<>>]

\* DependencyEdge drawn from the dependency to its parent
DependencyEdge_Reversed(node_name, dependency_metadata) ==
  [src |-> NodeLabel(dependency_metadata),
   dst |-> node_name,
   label |-> GetCondition(dependency_metadata)]

\* the edge of lines 100-101
DependencyEdge(node_name, dependency_metadata) ==
  [src |-> node_name,
   dst |-> NodeLabel(dependency_metadata),
   label |-> GetCondition(dependency_metadata)]

\* build_node of build_graph (lines 94-101), on the graph built so far
RECURSIVE build_node(_, _)
build_node(metadata, graph) ==
  LET node_name == NodeLabel(metadata)
      deps == GetDependencies(metadata)
      after[i \in 0..Len(deps)] ==
        IF i = 0 THEN [graph EXCEPT !.nodes = Append(@, node_name)]
        ELSE LET g == build_node(deps[i], after[i - 1]) IN
             [g EXCEPT !.edges = Append(@, DependencyEdge(node_name, deps[i]))]
  IN after[Len(deps)]

\* lines 91-103
build_graph(chart_metadata) == build_node(chart_metadata, EmptyGraph)

\* str(None), which line 117 formats for the root
NoneText == <<"N", "o", "n", "e">>

\* Qualified without the parent's identifier
Qualified_Unscoped(parent_node, node_label) == node_label

\* f"{parent_node}__{node_label}" (lines 115, 117, 133, 136)
Qualified(parent_node, node_label) == parent_node \o <<"_", "_">> \o node_label

\* the top graph, as the parent of the root's cluster
TopGraph == <<>>

EmptyClustered == [clusters |-> <<>>, nodes |-> <<>>, edges |-> <<>>]

\* build_cluster (lines 112-143), on the document built so far
RECURSIVE build_cluster(_, _, _, _)
build_cluster(metadata, parent_node, parent_cluster, doc) ==
  LET node_label == NodeLabel(metadata)
      node_name == Qualified(parent_node, node_label)
      deps == GetDependencies(metadata)
      opened ==
        [doc EXCEPT
           !.clusters = Append(@, [id |-> node_name, parent |-> parent_cluster]),
           !.nodes = Append(@, [id |-> node_name, label |-> node_label,
                                cluster |-> node_name, leaf |-> FALSE,
                                fillcolor |-> "white"])]
      after[i \in 0..Len(deps)] ==
        IF i = 0 THEN opened
        ELSE LET d == deps[i]
                 dependency_node_name == NodeLabel(d)
                 shaded == GetCondition(d) # <<>>
             IN IF GetDependencies(d) # <<>>
                THEN LET sub == build_cluster(d, node_name, node_name, after[i - 1]) IN
                     [sub EXCEPT !.edges =
                        Append(@, [src |-> node_name,
                                   dst |-> Qualified(node_name, dependency_node_name),
                                   label |-> GetCondition(d),
                                   owner |-> parent_cluster])]
                ELSE [after[i - 1] EXCEPT
                        !.nodes = Append(@, [id |-> Qualified(node_name, dependency_node_name),
                                             label |-> dependency_node_name,
                                             cluster |-> node_name, leaf |-> TRUE,
                                             fillcolor |-> IF shaded THEN "#eeeeee" ELSE "white"]),
                        !.edges = Append(@, [src |-> node_name,
                                             dst |-> Qualified(node_name, dependency_node_name),
                                             label |-> GetCondition(d),
                                             owner |-> node_name])]
  IN after[Len(deps)]

\* lines 109-145
build_combined_graph(chart_metadata) ==
  build_cluster(chart_metadata, NoneText, TopGraph, EmptyClustered)

(***************************************************************************)
(* The program as a state machine                                          *)
(***************************************************************************)
VARIABLES
  fs,        \* the inspected storage, rooted at args.chart_dir
  stack,     \* the activations of parse_chart, the innermost last
  scratch,   \* the temporary directories that exist
  files,     \* the paths extractall has written and that still exist
  status,    \* running, unwinding (an exception in flight), returned, raised, done
  err,       \* the exception raised and the activation that raised it
  ret,       \* the last activation that returned, with its value
  calls,     \* the activations of parse_chart so far, in order
  result,    \* chart_metadata of main (line 159)
  output     \* what main wrote

vars == <<fs, stack, scratch, files, status, err, ret, calls, result, output>>

NoMetadata == [name |-> <<>>, version |-> <<>>, dependencies |-> <<>>]

NewFrame(at) ==
  [at |-> at, pc |-> "read", chart_metadata |-> NoMetadata, idx |-> 0, tmp_dir |-> <<>>]

Top == stack[Len(stack)]

TopComp == CompAt(fs, Top.at)

SetTop(frame) == [stack EXCEPT ![Len(stack)] = frame]

Pop == SubSeq(stack, 1, Len(stack) - 1)

CurrentEntry == TopComp.entries[Top.idx]

Init ==
  /\ fs \in RootComponents
  /\ stack = << NewFrame(<<>>) >>
  /\ scratch = {}
  /\ files = {}
  /\ status = "running"
  /\ err = [kind |-> "", at |-> <<>>]
  /\ ret = [set |-> FALSE]
  /\ calls = << <<>> >>
  /\ result = [set |-> FALSE]
  /\ output = [kind |-> "none"]

\* an exception leaves the top activation
Raise(kind) ==
  /\ status' = "unwinding"
  /\ err' = [kind |-> kind, at |-> Top.at]
  /\ UNCHANGED <<stack, ret, result>>

\* the frame of a caller that gets the value of the call it waits for
Resumed(frame) ==
  [frame EXCEPT !.pc = IF frame.pc = "in_with" THEN "exit_with" ELSE "merge"]

\* the top activation returns value
Return(value) ==
  /\ ret' = [set |-> TRUE, at |-> Top.at, val |-> value]
  /\ IF Len(stack) = 1
       THEN /\ stack' = <<>>
            /\ status' = "returned"
            /\ result' = [set |-> TRUE, val |-> value]
       ELSE /\ stack' = [Pop EXCEPT ![Len(stack) - 1] = Resumed(@)]
            /\ UNCHANGED <<status, result>>
  /\ UNCHANGED err

\* lines 18-48
ReadManifest ==
  /\ status = "running" /\ stack # <<>> /\ Top.pc = "read"
  /\ LET manifest == TopComp.manifest
         chart_metadata == ChartMetadata(manifest.doc)
     IN IF ManifestError(manifest) # "" THEN Raise(ManifestError(manifest))
        ELSE IF chart_metadata.dependencies = <<>> THEN Return(chart_metadata)
        ELSE IF ~TopComp.charts_exists THEN Return(chart_metadata)
        ELSE /\ stack' = SetTop([Top EXCEPT !.pc = "loop", !.idx = 1,
                                            !.chart_metadata = chart_metadata])
             /\ UNCHANGED <<status, err, ret, result>>
  /\ UNCHANGED <<fs, scratch, files, calls, output>>

InLoop ==
  /\ status = "running" /\ stack # <<>> /\ Top.pc = "loop"
  /\ Top.idx <= Len(TopComp.entries)

\* lines 52-53: recurse into a directory named after a declared dependency
RecurseDir ==
  /\ InLoop
  /\ IsDependencyDir(CurrentEntry, Top.chart_metadata)
  /\ stack' = Append(SetTop([Top EXCEPT !.pc = "in_dir"]), NewFrame(Append(Top.at, Top.idx)))
  /\ calls' = Append(calls, Append(Top.at, Top.idx))
  /\ UNCHANGED <<fs, scratch, files, status, err, ret, result, output>>

\* lines 54-56: the with statement creates the temporary directory and
\* opens the archive; tarfile.open fails on what is not a tar file
OpenArchive ==
  /\ InLoop
  /\ ~IsDependencyDir(CurrentEntry, Top.chart_metadata)
  /\ IsArchiveName(CurrentEntry)
  /\ \E n \in ScratchNames :
       /\ \A d \in scratch : d.path # ScratchPath(n)
       /\ IF CurrentEntry.kind = "tgz"
            THEN /\ scratch' = scratch \cup {[path |-> ScratchPath(n), owner |-> Append(Top.at, Top.idx)]}
                 /\ stack' = SetTop([Top EXCEPT !.pc = "extract", !.tmp_dir = ScratchPath(n)])
                 /\ UNCHANGED <<status, err>>
            ELSE /\ Raise("ReadError")
                 /\ UNCHANGED scratch
  /\ UNCHANGED <<fs, files, ret, calls, result, output>>

\* lines 79-80
SkipEntry ==
  /\ InLoop
  /\ ~IsDependencyDir(CurrentEntry, Top.chart_metadata)
  /\ ~IsArchiveName(CurrentEntry)
  /\ stack' = SetTop([Top EXCEPT !.idx = @ + 1])
  /\ UNCHANGED <<fs, scratch, files, status, err, ret, calls, result, output>>

\* lines 66-76: safe_extract(dependency_package, tmp_dir)
SafeExtract ==
  /\ status = "running" /\ stack # <<>> /\ Top.pc = "extract"
  /\ LET members == GetMembers(CurrentEntry) IN
     IF TraversalDetected(members, Top.tmp_dir)
       THEN /\ Raise("PathTraversal")
            /\ UNCHANGED files
       ELSE /\ files' = files \cup ExtractAll(members, Top.tmp_dir)
            /\ stack' = SetTop([Top EXCEPT !.pc = "extracted"])
            /\ UNCHANGED <<status, err, ret, result>>
  /\ UNCHANGED <<fs, scratch, calls, output>>

\* line 78: parse_chart(os.path.join(tmp_dir, os.listdir(tmp_dir)[0]))
RecurseArchive ==
  /\ status = "running" /\ stack # <<>> /\ Top.pc = "extracted"
  /\ IF ListDir(files, Top.tmp_dir) = {}
       THEN /\ Raise("IndexError")
            /\ UNCHANGED calls
       ELSE /\ stack' = Append(SetTop([Top EXCEPT !.pc = "in_with"]),
                               NewFrame(Append(Top.at, Top.idx)))
            /\ calls' = Append(calls, Append(Top.at, Top.idx))
            /\ UNCHANGED <<status, err, ret, result>>
  /\ UNCHANGED <<fs, scratch, files, output>>

\* Cleanup that leaves the directory in place
Cleanup_Leak(dirs, frame) == dirs

\* what leaving the with block of an activation does to the temporary
\* directories (TemporaryDirectory.__exit__)
Cleanup(dirs, frame) == { d \in dirs : d.path # frame.tmp_dir }

\* the with block of line 56 ends after the call of line 78 returned
ExitWith ==
  /\ status = "running" /\ stack # <<>> /\ Top.pc = "exit_with"
  /\ scratch' = Cleanup(scratch, Top)
  /\ files' = RemoveTree(files, Top.tmp_dir)
  /\ stack' = SetTop([Top EXCEPT !.pc = "merge", !.tmp_dir = <<>>])
  /\ UNCHANGED <<fs, status, err, ret, calls, result, output>>

\* line 82
MergeSubChart ==
  /\ status = "running" /\ stack # <<>> /\ Top.pc = "merge"
  /\ IF MergeKeyFound(Top.chart_metadata, ret.val)
       THEN /\ stack' = SetTop([Top EXCEPT !.pc = "loop", !.idx = @ + 1,
                                           !.chart_metadata = Merge(@, ret.val)])
            /\ UNCHANGED <<status, err, ret, result>>
       ELSE Raise("KeyError")
  /\ UNCHANGED <<fs, scratch, files, calls, output>>

\* lines 84-88: the listing is exhausted
FinishLoop ==
  /\ status = "running" /\ stack # <<>> /\ Top.pc = "loop"
  /\ Top.idx > Len(TopComp.entries)
  /\ Return(Top.chart_metadata)
  /\ UNCHANGED <<fs, scratch, files, calls, output>>

\* whether an exception in flight is still inside the with block of the
\* top activation
InWithBlock(frame) == frame.tmp_dir # <<>>

\* CleanupOnError that leaves the directory in place, as a cleanup written
\* after the call instead of a with statement would
CleanupOnError_Leak(dirs, frame) == dirs

\* what an exception that leaves the with block of an activation does to
\* the temporary directories
CleanupOnError(dirs, frame) == Cleanup(dirs, frame)

\* the exception leaves the with block of line 56
UnwindExitWith ==
  /\ status = "unwinding" /\ stack # <<>> /\ InWithBlock(Top)
  /\ scratch' = CleanupOnError(scratch, Top)
  /\ files' = RemoveTree(files, Top.tmp_dir)
  /\ stack' = SetTop([Top EXCEPT !.tmp_dir = <<>>])
  /\ UNCHANGED <<fs, status, err, ret, calls, result, output>>

\* UnwindFrame with the recursive call wrapped in a try that skips the entry
UnwindFrame_Absorb ==
  /\ status = "unwinding" /\ stack # <<>> /\ ~InWithBlock(Top)
  /\ IF Len(stack) = 1
       THEN /\ stack' = Pop
            /\ status' = "raised"
       ELSE /\ stack' = [Pop EXCEPT ![Len(stack) - 1] =
                           [@ EXCEPT !.pc = "loop", !.idx = @ + 1, !.tmp_dir = <<>>]]
            /\ status' = "running"
  /\ UNCHANGED <<fs, scratch, files, err, ret, calls, result, output>>

\* the exception leaves an activation of parse_chart; out of the last one
\* it ends the program
UnwindFrame ==
  /\ status = "unwinding" /\ stack # <<>> /\ ~InWithBlock(Top)
  /\ stack' = Pop
  /\ status' = IF Len(stack) = 1 THEN "raised" ELSE "unwinding"
  /\ UNCHANGED <<fs, scratch, files, err, ret, calls, result, output>>

OutputTypes == {"graph", "combined-graph", "json"}

\* lines 161-177 of main, for an output type and an output directory that
\* is or is not a directory
Main ==
  /\ status = "returned"
  /\ \E type \in OutputTypes, dir_ok \in BOOLEAN :
       IF ~dir_ok
         THEN /\ status' = "raised"
              /\ err' = [kind |-> "OutputDir", at |-> <<>>]
              /\ UNCHANGED output
         ELSE /\ status' = "done"
              /\ output' =
                   IF type = "graph"
                     THEN [kind |-> "clustered", doc |-> build_combined_graph(result.val)]
                   ELSE IF type = "combined-graph"
                     THEN [kind |-> "flat", graph |-> build_graph(result.val)]
                   ELSE [kind |-> "json", doc |-> result.val]
              /\ UNCHANGED err
  /\ UNCHANGED <<fs, stack, scratch, files, ret, calls, result>>

Next ==
  \/ ReadManifest
  \/ RecurseDir
  \/ OpenArchive
  \/ SkipEntry
  \/ SafeExtract
  \/ RecurseArchive
  \/ ExitWith
  \/ MergeSubChart
  \/ FinishLoop
  \/ UnwindExitWith
  \/ UnwindFrame
  \/ Main

Spec == Init /\ [][Next]_vars

(***************************************************************************)
(* Vocabulary of the properties                                            *)
(***************************************************************************)
Frames == { stack[k] : k \in 1..Len(stack) }

ScratchPaths == { ScratchPath(n) : n \in ScratchNames }

\* the archive entry an activation is handling
FrameEntry(frame) == CompAt(fs, frame.at).entries[frame.idx]

\* some member's target, joined to the destination and normalised, is
\* neither the destination nor below it, by path components
EscapesByComponents(entry, tmp_dir) ==
  \E i \in 1..Len(GetMembers(entry)) :
    ~Under(PathJoin(tmp_dir, GetMembers(entry)[i]), tmp_dir)

IsPrefix(p, q) == Len(p) <= Len(q) /\ SubSeq(q, 1, Len(p)) = p

\* the parse_chart error, as opposed to main's
ResolutionFailed == status \in {"unwinding", "raised"} /\ err.kind # "OutputDir"

\* C1: an archive with a member that escapes the destination by path
\* components never passes safe_extract, and nothing it holds is written:
\* every written path lies in a temporary directory that exists, and no
\* activation is past safe_extract with such an archive.
C1_EscapingArchiveRejected ==
  /\ \A f \in Frames :
       f.pc \in {"extracted", "in_with"} => ~EscapesByComponents(FrameEntry(f), f.tmp_dir)
  /\ \A p \in files : \E d \in scratch : Under(p, d.path)

\* C2: every temporary directory that exists belongs to the with block of
\* an activation still on the stack, for the archive that activation is
\* handling; once the resolution has returned or raised, none exists.
C2_ScratchRemoved ==
  /\ \A d \in scratch :
       \E f \in Frames : f.tmp_dir = d.path /\ d.owner = Append(f.at, f.idx)
  /\ status \in {"returned", "raised", "done"} => scratch = {}

\* a manifest error raised two archives deep, after which nothing is left
C2_Witness ==
  /\ status = "raised"
  /\ err.kind = "MissingManifest"
  /\ Len(err.at) = 2
  /\ EntryAt(fs, SubSeq(err.at, 1, 1)).kind = "tgz"
  /\ EntryAt(fs, err.at).kind = "tgz"
  /\ scratch = {}

BadManifest(comp) == comp.manifest.state \in {"missing", "malformed"}

\* C3: once parse_chart is called on a component whose manifest is missing
\* or unparsable, that call is the last one made, it raises, the exception
\* is never turned back into a normal return, and main gets no tree.
C3_BadManifestAborts ==
  \A i \in 1..Len(calls) :
    BadManifest(CompAt(fs, calls[i])) =>
      /\ i = Len(calls)
      /\ ~result.set
      /\ output.kind = "none"
      /\ status \in {"running", "unwinding", "raised"}
      /\ status = "running" => (stack # <<>> /\ Top.at = calls[i] /\ Top.pc = "read")
      /\ status # "running" =>
           (err.at = calls[i] /\ err.kind \in {"MissingManifest", "MalformedManifest"})

\* a manifest missing two levels down, with an entry of the root's listing
\* left unvisited
C3_Witness ==
  /\ status = "raised"
  /\ Len(err.at) = 2
  /\ err.kind = "MissingManifest"
  /\ Len(fs.entries) > err.at[1]
  /\ ~result.set

\* every manifest of the storage parses with its required keys and every
\* archive has its top-level directory and no escaping member
RECURSIVE WellFormedStorage(_)
WellFormedStorage(comp) ==
  /\ ManifestError(comp.manifest) = ""
  /\ \A i \in 1..Len(comp.entries) :
       LET e == comp.entries[i] IN
       /\ e.kind = "tgz" =>
            (e.has_top /\ \A t \in ScratchPaths : ~EscapesByComponents(e, t))
       /\ e.kind \in {"dir", "tgz"} => WellFormedStorage(e.comp)

\* C4: on a well-formed storage parse_chart does not raise, whatever
\* names the manifests of the entries it recurses into carry.
C4_WellFormedResolves == WellFormedStorage(fs) => ~ResolutionFailed

DeclaredNames(comp) ==
  IF ManifestError(comp.manifest) # "" THEN {}
  ELSE { DeclaredDependencies(comp.manifest.doc)[i].name :
           i \in 1..Len(DeclaredDependencies(comp.manifest.doc)) }

\* a component that declares dependencies and has no charts/ folder
DeclaresWithoutFolder(comp) == DeclaredNames(comp) # {} /\ ~comp.charts_exists

\* one entry per declared name, carrying what the (last) declaration of
\* that name says, and no nested mapping
AllUnresolved(dependencies, declared) ==
  /\ \A n \in { declared[i].name : i \in 1..Len(declared) } :
       Cardinality({ k \in 1..Len(dependencies) : dependencies[k].name = n }) = 1
  /\ \A k \in 1..Len(dependencies) :
       /\ DOMAIN dependencies[k] = {"name", "version", "repository", "condition"}
       /\ \E i \in 1..Len(declared) :
            /\ declared[i].name = dependencies[k].name
            /\ \A j \in (i + 1)..Len(declared) : declared[j].name # declared[i].name
            /\ declared[i].version = dependencies[k].version
            /\ declared[i].repository = dependencies[k].repository
            /\ dependencies[k].condition =
                 (IF "condition" \in DOMAIN declared[i] THEN declared[i].condition ELSE <<>>)

\* C5: an activation on a component that declares dependencies and has no
\* charts/ folder never enters the listing loop and never raises; it
\* returns the manifest's name and version with every declared dependency
\* present and unresolved.
C5_MissingFolderUnresolved ==
  /\ \A f \in Frames : DeclaresWithoutFolder(CompAt(fs, f.at)) => f.pc = "read"
  /\ ResolutionFailed => ~DeclaresWithoutFolder(CompAt(fs, err.at))
  /\ (ret.set /\ DeclaresWithoutFolder(CompAt(fs, ret.at))) =>
       LET doc == CompAt(fs, ret.at).manifest.doc IN
       /\ ret.val.name = doc.name
       /\ ret.val.version = doc.version
       /\ AllUnresolved(ret.val.dependencies, doc.dependencies)

\* such a component has returned a mapping with a conditional entry
C5_Witness ==
  /\ ret.set
  /\ DeclaresWithoutFolder(CompAt(fs, ret.at))
  /\ \E k \in 1..Len(ret.val.dependencies) : ret.val.dependencies[k].condition # <<>>

\* C10 as stated: at most one temporary directory exists at any time.
C10_AtMostOneScratch == Cardinality(scratch) <= 1

\* C10 as amended: the temporary directories that exist are those of the
\* archives on the current recursion path, one inside the other: two of
\* them never belong to sibling archives or to different branches.
C10_ScratchNested ==
  /\ \A d1, d2 \in scratch :
       d1 # d2 => (d1.owner # d2.owner /\ (IsPrefix(d1.owner, d2.owner) \/ IsPrefix(d2.owner, d1.owner)))
  /\ \A d \in scratch : stack # <<>> /\ IsPrefix(d.owner, Append(Top.at, Top.idx))
  /\ Cardinality(scratch) <= Len(stack)

\* the directory of a nested archive exists beside that of its parent
C10_Witness ==
  /\ Cardinality(scratch) = 2
  /\ \E d \in scratch : Len(d.owner) = 2

(***************************************************************************)
(* Properties of the resolved tree and of the graphs                       *)
(***************************************************************************)
\* what the resolution ended with: the tree, or the exception
Observed ==
  IF result.set THEN Returned(result.val) ELSE Raised(err.kind)

ResolutionEnded ==
  status = "returned" \/ (status = "raised" /\ err.kind # "OutputDir")

\* the same dependency as an archive p.tgz whose top-level directory is the
\* directory
AsArchive(entry, comp) == TgzEntry(entry.file_name, TRUE, comp, <<>>)

\* the storages that differ from comp only in how declared dependencies
\* found as directories are stored, at any level: each as the directory
\* or as an archive of it
RECURSIVE Representations(_)
Representations(comp) ==
  LET entryChoices(e) ==
        IF e.kind = "dir" /\ e.file_name \in DeclaredNames(comp)
          THEN UNION { { [e EXCEPT !.comp = c], AsArchive(e, c) } : c \in Representations(e.comp) }
        ELSE IF e.kind = "tgz" /\ e.has_top
          THEN { [e EXCEPT !.comp = c] : c \in Representations(e.comp) }
        ELSE { e }
      listings[i \in 0..Len(comp.entries)] ==
        IF i = 0 THEN { <<>> }
        ELSE { Append(l, e) : l \in listings[i - 1], e \in entryChoices(comp.entries[i]) }
  IN { [comp EXCEPT !.entries = l] : l \in listings[Len(comp.entries)] }

\* C6: the outcome of the resolution (the tree, or the exception) is the
\* outcome for every storage that holds the same components with any of
\* the declared dependency directories, at any level, stored as archives.
C6_RepresentationIndependent ==
  ResolutionEnded =>
    /\ \E t \in ScratchPaths : parse_chart(fs, t) = Observed
    /\ \A t \in ScratchPaths :
         parse_chart(fs, t) = Observed =>
           \A other \in Representations(fs) : parse_chart(other, t) = Observed

\* a tree two levels deep, resolved from directories at both levels
C6_Witness ==
  /\ status = "returned"
  /\ Cardinality(Representations(fs)) >= 4
  /\ \E k \in 1..Len(result.val.dependencies) :
       /\ "dependencies" \in DOMAIN result.val.dependencies[k]
       /\ \E j \in 1..Len(result.val.dependencies[k].dependencies) :
            "dependencies" \in DOMAIN result.val.dependencies[k].dependencies[j]

\* the nodes of a tree, each as the path of positions that leads to it
RECURSIVE TreePaths(_)
TreePaths(node) ==
  { <<>> } \cup
    UNION { { <<k>> \o p : p \in TreePaths(GetDependencies(node)[k]) } :
              k \in 1..Len(GetDependencies(node)) }

RECURSIVE NodeAt(_, _)
NodeAt(node, path) ==
  IF path = <<>> THEN node
  ELSE NodeAt(GetDependencies(node)[path[1]], SubSeq(path, 2, Len(path)))

ParentPath(path) == SubSeq(path, 1, Len(path) - 1)

HasChildren(node) == GetDependencies(node) # <<>>

\* the nodes of the document: the root and every entry of every nested
\* dependencies mapping
DocumentNodeCount(doc) == Cardinality(TreePaths(doc))

RECURSIVE NoArchives(_)
NoArchives(comp) ==
  \A i \in 1..Len(comp.entries) :
    /\ comp.entries[i].kind # "tgz"
    /\ comp.entries[i].kind = "dir" => NoArchives(comp.entries[i].comp)

\* the directories of charts/ named after a declared dependency
PresentDependencies(comp) ==
  { i \in 1..Len(comp.entries) :
      comp.entries[i].kind = "dir" /\ comp.entries[i].file_name \in DeclaredNames(comp) }

\* the component directories reachable from comp, comp included, through
\* declared and present dependency names
RECURSIVE ReachableDirectories(_)
ReachableDirectories(comp) ==
  LET below[i \in 0..Len(comp.entries)] ==
        IF i = 0 THEN 0
        ELSE below[i - 1] +
               (IF i \in PresentDependencies(comp)
                  THEN ReachableDirectories(comp.entries[i].comp) ELSE 0)
  IN 1 + below[Len(comp.entries)]

\* over the reachable components, the declared names with no directory
RECURSIVE UnmatchedDeclarations(_)
UnmatchedDeclarations(comp) ==
  LET below[i \in 0..Len(comp.entries)] ==
        IF i = 0 THEN 0
        ELSE below[i - 1] +
               (IF i \in PresentDependencies(comp)
                  THEN UnmatchedDeclarations(comp.entries[i].comp) ELSE 0)
  IN Cardinality({ n \in DeclaredNames(comp) :
                     \A i \in PresentDependencies(comp) : comp.entries[i].file_name # n })
       + below[Len(comp.entries)]

\* every reachable dependency directory holds a manifest that names it
RECURSIVE DirectoriesNamed(_)
DirectoriesNamed(comp) ==
  \A i \in PresentDependencies(comp) :
    /\ ManifestError(comp.entries[i].comp.manifest) = ""
    /\ comp.entries[i].comp.manifest.doc.name = comp.entries[i].file_name
    /\ DirectoriesNamed(comp.entries[i].comp)

\* C7 as stated: for a storage without archives the document has as many
\* nodes as there are reachable component directories.
C7_NodeCountIsReachable ==
  (output.kind = "json" /\ NoArchives(fs)) =>
    DocumentNodeCount(output.doc) = ReachableDirectories(fs)

\* C7 as amended: for a storage without archives whose dependency
\* directories hold manifests that name them, the document has one node
\* per reachable component directory and one per declared dependency that
\* has no directory.
C7_NodeCountWithUnresolved ==
  (output.kind = "json" /\ NoArchives(fs) /\ DirectoriesNamed(fs)) =>
    DocumentNodeCount(output.doc) = ReachableDirectories(fs) + UnmatchedDeclarations(fs)

\* three directories reached, and a declared dependency without one
C7_Witness ==
  /\ output.kind = "json"
  /\ NoArchives(fs)
  /\ DirectoriesNamed(fs)
  /\ ReachableDirectories(fs) >= 3
  /\ UnmatchedDeclarations(fs) >= 1

SeqCount(q, v) == Cardinality({ i \in 1..Len(q) : q[i] = v })

SeqRange(q) == { q[i] : i \in 1..Len(q) }

\* the edge the tree asks for at a node other than the root
TreeEdge(tree, path) ==
  [src |-> NodeLabel(NodeAt(tree, ParentPath(path))),
   dst |-> NodeLabel(NodeAt(tree, path)),
   label |-> IF "condition" \in DOMAIN NodeAt(tree, path)
               THEN NodeAt(tree, path).condition ELSE <<>>]

\* C8: the vertices of the flat graph are the labels of the tree's nodes,
\* no more of them than nodes, and its edges are one per parent-child pair
\* of the tree, from the parent's label to the child's with the child's
\* condition, and no other.
C8_FlatGraph ==
  output.kind = "flat" =>
    LET tree == result.val
        graph == output.graph
        paths == TreePaths(tree)
        pairs == paths \ { <<>> }
    IN /\ SeqRange(graph.nodes) = { NodeLabel(NodeAt(tree, p)) : p \in paths }
       /\ Cardinality(SeqRange(graph.nodes)) <= Cardinality(paths)
       /\ Len(graph.edges) = Cardinality(pairs)
       /\ \A p \in pairs :
            SeqCount(graph.edges, TreeEdge(tree, p)) =
              Cardinality({ q \in pairs : TreeEdge(tree, q) = TreeEdge(tree, p) })

\* a tree in which a label occurs under two parents, with a conditional
\* and an unconditional edge
C8_Witness ==
  /\ output.kind = "flat"
  /\ Cardinality(SeqRange(output.graph.nodes)) < Cardinality(TreePaths(result.val))
  /\ \E i, j \in 1..Len(output.graph.edges) :
       output.graph.edges[i].label = <<>> /\ output.graph.edges[j].label # <<>>

ClusterIds(doc) == [i \in 1..Len(doc.clusters) |-> doc.clusters[i].id]

LeafShapes(doc) == { i \in 1..Len(doc.nodes) : doc.nodes[i].leaf }

LeafIds(doc) ==
  LET own[i \in 0..Len(doc.nodes)] ==
        IF i = 0 THEN <<>>
        ELSE IF doc.nodes[i].leaf THEN Append(own[i - 1], doc.nodes[i].id) ELSE own[i - 1]
  IN own[Len(doc.nodes)]

\* the identifier of a tree node: its ancestors' identifiers and its label
RECURSIVE PathIdentifier(_, _)
PathIdentifier(tree, path) ==
  IF path = <<>> THEN NoneText \o <<"_", "_">> \o NodeLabel(tree)
  ELSE PathIdentifier(tree, ParentPath(path)) \o <<"_", "_">> \o NodeLabel(NodeAt(tree, path))

Distinct(q) == Cardinality(SeqRange(q)) = Len(q)

\* C9 as stated: one cluster per tree node with a child, one leaf shape
\* per dependency without children, no cluster for a node without
\* children, and identifiers that differ from node to node.
C9_ClustersAreParents ==
  output.kind = "clustered" =>
    LET tree == result.val
        doc == output.doc
        paths == TreePaths(tree)
    IN /\ Len(doc.clusters) = Cardinality({ p \in paths : HasChildren(NodeAt(tree, p)) })
       /\ Cardinality(LeafShapes(doc)) =
            Cardinality({ p \in paths \ { <<>> } : ~HasChildren(NodeAt(tree, p)) })
       /\ \A p \in paths :
            ~HasChildren(NodeAt(tree, p)) => PathIdentifier(tree, p) \notin SeqRange(ClusterIds(doc))
       /\ Distinct(ClusterIds(doc) \o LeafIds(doc))

\* no name or version of the tree holds "@" or "_"
PlainText(t) == \A i \in 1..Len(t) : t[i] \notin {"@", "_"}

PlainNames(tree) ==
  \A p \in TreePaths(tree) :
    PlainText(NodeAt(tree, p).name) /\ PlainText(NodeAt(tree, p).version)

\* C9 as amended: the root always gets a cluster, so the clusters are the
\* nodes with a child, and the root when it has none; one leaf shape per
\* dependency without children; no dependency without children gets a
\* cluster; and when no name or version holds "@" or "_", the identifiers
\* are those of the nodes' paths and differ from node to node.
C9_ClustersAreParentsOrRoot ==
  output.kind = "clustered" =>
    LET tree == result.val
        doc == output.doc
        paths == TreePaths(tree)
        clustered == { p \in paths : p = <<>> \/ HasChildren(NodeAt(tree, p)) }
    IN /\ Len(doc.clusters) = Cardinality(clustered)
       /\ Cardinality(LeafShapes(doc)) = Cardinality(paths \ clustered)
       /\ SeqRange(ClusterIds(doc)) = { PathIdentifier(tree, p) : p \in clustered }
       /\ SeqRange(LeafIds(doc)) = { PathIdentifier(tree, p) : p \in paths \ clustered }
       /\ PlainNames(tree) =>
            /\ Distinct(ClusterIds(doc) \o LeafIds(doc))
            /\ \A p \in paths \ clustered :
                 PathIdentifier(tree, p) \notin SeqRange(ClusterIds(doc))

\* a tree with a nested cluster, a leaf, and a label that occurs under two
\* parents
C9_Witness ==
  /\ output.kind = "clustered"
  /\ PlainNames(result.val)
  /\ Len(output.doc.clusters) >= 2
  /\ Cardinality(LeafShapes(output.doc)) >= 2
  /\ \E p, q \in TreePaths(result.val) :
       p # q /\ NodeLabel(NodeAt(result.val, p)) = NodeLabel(NodeAt(result.val, q))
====
